---- MODULE Spec2Model ----
(***************************************************************************)
(* A model of msprtckit (src/rtckit.c, src/rtckit.h): the epoch <-> struct *)
(* tm conversion (rtc_interpret, rtc_epoch and their helpers) and the      *)
(* one-second tick / alarm bookkeeping done by RTC_ISR and rtc_init.       *)
(*                                                                         *)
(* unsigned long is 32 bits wide on the MSP430.  Every epoch of the model  *)
(* lies in 0 .. 2^31-1, and every intermediate value of the conversion     *)
(* code lies in 0 .. 2^32-1 except the one noted at RemainsThisYear.       *)
(***************************************************************************)
EXTENDS Integers, Sequences, FiniteSets, TLC

VARIABLES
    \* ---- calendar codec (a foreground caller of rtc_interpret / rtc_epoch)
    epoch,      \* the argument handed to rtc_interpret
    timebuf,    \* static struct tm timebuf (rtckit.c:202)
    ret,        \* value returned by rtc_interpret: "NULL" or "timebuf"
    result,     \* value returned by rtc_epoch
    cpc,        \* position of the caller: "start", "interpreted", "done"
    \* ---- tick and alarm bookkeeping (rtckit.c:40-52)
    rtcepoch, rtcalarm0, rtcalarm0_incr, rtcalarm1, rtcalarm1_incr,
    rtc_status, \* the set of bits that are 1 in rtc_status
    \* ---- hardware the code reads and writes
    RTCCTL,     \* [ss: clock source, ie: RTCIE, ifg: RTCIF]
    SR,         \* the bits of the CPU status register: "GIE", "LPM"
    \* ---- the foreground code that clears and then reads rtc_status
    fg_pc,      \* "idle"; "cleared": it has just cleared cmask; "read": and read
    cmask,      \* the mask it cleared
    rd,         \* the value it read back
    \* ---- history
    pre,        \* rtc_status just before that clear
    isrbits,    \* the bits RTC_ISR has set between that clear and the read
    fired,      \* the alarm bits the latest run of RTC_ISR set
    e0,         \* rtcepoch after reset or after the latest foreground write of it
    nticks,     \* runs of RTC_ISR since then
    c0T,        \* alarm 0: the future target it was configured with together
                \* with a re-arm increment > 0, while only ticks have changed
                \* the epoch and the slot since; 0 otherwise
    shot        \* per slot: 0, or 1 once it fired with increment 0 and the
                \* foreground has since changed neither its target nor the
                \* epoch, or 2 once it fired with increment 0 and the
                \* foreground has since written the epoch but not its target

codecVars == <<epoch, timebuf, ret, result, cpc>>

progVars == <<rtcepoch, rtcalarm0, rtcalarm0_incr, rtcalarm1, rtcalarm1_incr, rtc_status>>

hwVars == <<RTCCTL, SR>>

fgVars == <<fg_pc, cmask, rd, pre, isrbits>>

histVars == <<fired, e0, nticks, c0T, shot>>

tickVars == <<progVars, hwVars, fgVars, histVars>>

vars == <<codecVars, tickVars>>

(***************************************************************************)
(* Program constants                                                       *)
(***************************************************************************)
TOTAL_SECONDS_PER_LEAP_CYCLE == ((86400*365)*3 + (86400*366))

EPOCH_AFTER_FIRST_LEAPYEAR == ((86400*365)*2 + (86400*366))

RTC_GENERAL_ERROR == 32768

RTC_TICK == 1

RTC_TICK_DOES_WAKEUP == 256

RTCALARM_0_TRIGGERED == 2

RTCALARM_1_TRIGGERED == 4

\* monthInfo[].days, indexed from 0 as in the C table
monthInfo == [m \in 0..11 |->
                 [days |-> <<31, 28, 31, 30, 31, 30, 31, 31, 30, 31, 30, 31>>[m + 1]]]

(***************************************************************************)
(* rtc_calculate_last_leapyear                                             *)
(***************************************************************************)
Unsupported_le(e) == e <= EPOCH_AFTER_FIRST_LEAPYEAR

\* the guard "epoch < EPOCH_AFTER_FIRST_LEAPYEAR" that makes the function return 0
Unsupported(e) == e < EPOCH_AFTER_FIRST_LEAPYEAR

RECURSIVE LeapCycleLoop(_, _, _)
\* while (epoch >= TOTAL_SECONDS_PER_LEAP_CYCLE) { epoch -= ..; accum += ..; years += 4; }
LeapCycleLoop(e, accum, years) ==
    IF e >= TOTAL_SECONDS_PER_LEAP_CYCLE
    THEN LeapCycleLoop(e - TOTAL_SECONDS_PER_LEAP_CYCLE,
                       accum + TOTAL_SECONDS_PER_LEAP_CYCLE, years + 4)
    ELSE [rv |-> accum, startOfCycle |-> accum, remains |-> e, years |-> years]

\* rv is the return value (0: unsupported); the other fields are *buf
rtc_calculate_last_leapyear(e) ==
    IF Unsupported(e)
    THEN [rv |-> 0, startOfCycle |-> 0, remains |-> 0, years |-> 0]
    ELSE LeapCycleLoop(e - EPOCH_AFTER_FIRST_LEAPYEAR, EPOCH_AFTER_FIRST_LEAPYEAR, 3)

(***************************************************************************)
(* rtc_interpret                                                           *)
(***************************************************************************)
IsLeapYear_gt3(remains_years) == remains_years > 3

\* "if (remains_years > 2)": days_february = 29, days_this_year = 366
IsLeapYear(remains_years) == remains_years > 2

\* "if (remains_years > 3) remains_years--"
ClampYears(remains_years) ==
    IF remains_years > 3 THEN remains_years - 1 ELSE remains_years

\* Both branches of the if at rtckit.c:226.  The else branch computes
\*   remains - ((remains_years-1)*86400*365) - (86400*days_this_year)
\* in unsigned long; with remains_years = 0 the factor remains_years-1 is
\* 2^32-1 and the product wraps, and the two subtractions wrap back.  Unsigned
\* arithmetic is arithmetic modulo 2^32, so the value is the integer
\* expression below reduced modulo 2^32, and that expression lies in
\* 0 .. 2^32-1 for every remains < TOTAL_SECONDS_PER_LEAP_CYCLE.
RemainsThisYear(remains, remains_years, days_this_year) ==
    IF days_this_year = 366
    THEN remains - (remains_years * 86400 * 365)
    ELSE remains - ((remains_years - 1) * 86400 * 365) - (86400 * days_this_year)

DaysInMonth(mon, days_february) ==
    IF mon = 1 THEN days_february ELSE monthInfo[mon].days

RECURSIVE MonthLoop(_, _, _, _)
\* while (i > -1) { i -= days(tm_mon); j += days(tm_mon); tm_mon++; }
MonthLoop(i, j, mon, days_february) ==
    IF i > -1
    THEN MonthLoop(i - DaysInMonth(mon, days_february),
                   j + DaysInMonth(mon, days_february), mon + 1, days_february)
    ELSE [i |-> i, j |-> j, mon |-> mon]

Weekday_plus3(e) ==
    (((e \div 86400) - ((e \div (7*86400)) * 7)) + 3) % 7

\* tm_wday: weeks_since_epoch = epoch / (7*86400); 4 = Thursday, Jan 1 1970
Weekday(e) ==
    (((e \div 86400) - ((e \div (7*86400)) * 7)) + 4) % 7

\* The struct tm written by rtc_interpret for a supported epoch
InterpretFields(e, leaps) ==
    LET ry0               == leaps.remains \div (365*86400)
        leap              == IsLeapYear(ry0)
        days_february     == IF leap THEN 29 ELSE 28
        days_this_year    == IF leap THEN 366 ELSE 365
        remains_years     == ClampYears(ry0)
        remains_this_year == RemainsThisYear(leaps.remains, remains_years, days_this_year)
        yday              == remains_this_year \div 86400
        lp                == MonthLoop(yday, 0, 0, days_february)
        mon               == lp.mon - 1
        j                 == lp.j - DaysInMonth(mon, days_february)
        i                 == remains_this_year - yday * 86400
    IN  [tm_year |-> leaps.years + remains_years + 1970,
         tm_yday |-> yday,
         tm_mon  |-> mon,
         tm_mday |-> ((remains_this_year - (j*86400)) \div 86400) + 1,
         tm_hour |-> i \div 3600,
         tm_min  |-> (i % 3600) \div 60,
         tm_sec  |-> (i % 3600) % 60,
         tm_wday |-> Weekday(e)]

\* rv = "NULL" leaves the static buffer as it was
rtc_interpret(e, buf) ==
    LET leaps == rtc_calculate_last_leapyear(e)
    IN  IF leaps.rv = 0
        THEN [rv |-> "NULL", buf |-> buf]
        ELSE [rv |-> "timebuf", buf |-> InterpretFields(e, leaps)]

(***************************************************************************)
(* rtc_calculate_yday and rtc_epoch                                        *)
(***************************************************************************)
RECURSIVE YdayLoop(_, _, _, _)
\* while (month < tm_mon) { yday += (month == 1 && is_leap) ? 29 : days; month++; }
YdayLoop(month, yday, tm_mon, is_leap) ==
    IF month < tm_mon
    THEN YdayLoop(month + 1,
                  yday + (IF month = 1 /\ is_leap # 0 THEN 29 ELSE monthInfo[month].days),
                  tm_mon, is_leap)
    ELSE yday

\* latest_epoch is passed by the caller and never read
rtc_calculate_yday(tm, latest_epoch, is_leap) ==
    LET yday == YdayLoop(0, 0, tm.tm_mon, is_leap)
    IN  IF tm.tm_mday > 0 THEN yday + tm.tm_mday - 1 ELSE yday

RECURSIVE CycleWalk_gt4(_, _, _)
CycleWalk_gt4(tm_year, e, latest_year) ==
    IF (tm_year - latest_year) > 4
    THEN CycleWalk_gt4(tm_year, e + TOTAL_SECONDS_PER_LEAP_CYCLE, latest_year + 4)
    ELSE [epoch |-> e, latest_year |-> latest_year]

RECURSIVE CycleWalk(_, _, _)
\* while ((tm_year - latest_year) >= 4) { epoch += CYCLE; latest_year += 4; }
CycleWalk(tm_year, e, latest_year) ==
    IF (tm_year - latest_year) >= 4
    THEN CycleWalk(tm_year, e + TOTAL_SECONDS_PER_LEAP_CYCLE, latest_year + 4)
    ELSE [epoch |-> e, latest_year |-> latest_year]

RECURSIVE YearWalk(_, _, _)
\* while ((tm_year - latest_year) > 0) { epoch += 86400*365; latest_year++; }
YearWalk(tm_year, e, latest_year) ==
    IF (tm_year - latest_year) > 0
    THEN YearWalk(tm_year, e + 86400*365, latest_year + 1)
    ELSE [epoch |-> e, latest_year |-> latest_year]

\* p = "NULL" is the null pointer; otherwise tm is the struct pointed to.
\* rv is the return value, buf the struct after the call (tm_yday may be rewritten).
rtc_epoch(p, tm) ==
    IF p = "NULL" \/ tm.tm_year < 1973
    THEN [rv |-> 0, buf |-> tm]
    ELSE LET c       == CycleWalk(tm.tm_year, EPOCH_AFTER_FIRST_LEAPYEAR, 1973)
             is_leap == IF (tm.tm_year - c.latest_year) > 2 THEN 1 ELSE 0
             y       == YearWalk(tm.tm_year, c.epoch, c.latest_year)
             tm1     == IF tm.tm_yday > 366 THEN [tm EXCEPT !.tm_yday = 0] ELSE tm
             tm2     == IF tm1.tm_yday = 0 /\ (tm1.tm_mday > 0 \/ tm1.tm_mon > 0)
                        THEN [tm1 EXCEPT !.tm_yday = rtc_calculate_yday(tm1, y.epoch, is_leap)]
                        ELSE tm1
         IN  [rv  |-> y.epoch + tm2.tm_yday * 86400 + tm2.tm_hour * 3600
                      + tm2.tm_min * 60 + tm2.tm_sec,
              buf |-> tm2]

(***************************************************************************)
(* rtc_init.  The RTC counter module exists on the FR2xxx/FR4xxx parts,    *)
(* which have the CS module, so the RTC_CLOCK_SMCLK case is compiled in.   *)
(* dco says whether CSCTL4 selects the DCO for MCLK/SMCLK (SELMS_0).       *)
(* RTCPS and RTCMOD only set the period of the tick and are not kept; the   *)
(* SMCLK path divides by the raw DIVS field (rtckit.c:138), which is 0 for *)
(* a divider of 1, so the period it programs is then arbitrary, and the    *)
(* model lets a tick come at any time.                                     *)
(* rtc_init is taken as one step: RTC_ISR running between two of its       *)
(* statements leaves the same state as RTC_ISR running right after it.     *)
(***************************************************************************)
ClockSources == {"XT1CLK", "VLOCLK", "SMCLK", "other"}

InitTakesErrorReturn_noSmclkCheck(src, dco) == src \notin {"XT1CLK", "VLOCLK", "SMCLK"}

\* the two "rtc_status |= RTC_GENERAL_ERROR; return;" paths
InitTakesErrorReturn(src, dco) ==
    \/ src = "SMCLK" /\ ~dco
    \/ src \notin {"XT1CLK", "VLOCLK", "SMCLK"}

\* The foreground runs while the CPU is awake.  Whatever it does next ends
\* a clear-then-read of the status that came before.
Awake == "LPM" \notin SR

FgLeave == fg_pc' = "idle" /\ cmask' = {} /\ rd' = {} /\ pre' = {} /\ isrbits' = {}

rtc_init(src, dco) ==
    /\ Awake /\ FgLeave
    /\ IF InitTakesErrorReturn(src, dco)
       THEN /\ rtc_status' = {RTC_GENERAL_ERROR}
            /\ RTCCTL' = [RTCCTL EXCEPT !.ifg = FALSE]
       ELSE /\ rtc_status' = {}
            /\ RTCCTL' = [ss |-> src, ie |-> TRUE, ifg |-> FALSE]
    /\ UNCHANGED <<rtcepoch, rtcalarm0, rtcalarm0_incr, rtcalarm1, rtcalarm1_incr>>
    /\ UNCHANGED <<SR, histVars, codecVars>>

(***************************************************************************)
(* RTC_ISR                                                                 *)
(***************************************************************************)
MaxEpoch == 5

\* The counter of a selected clock source reaches RTCMOD: the hardware sets
\* RTCIF.  A tick that finds RTCIF still set is lost.
HwTick ==
    /\ RTCCTL.ss # "none"
    /\ rtcepoch < MaxEpoch
    /\ RTCCTL' = [RTCCTL EXCEPT !.ifg = TRUE]
    /\ UNCHANGED <<progVars, SR, fgVars, histVars, codecVars>>

TickStatus_assign(st) == {RTC_TICK}

\* rtc_status |= RTC_TICK
TickStatus(st) == st \cup {RTC_TICK}

NextEpoch_alarmOnly(e, a0, a1) == IF e + 1 = a0 \/ e + 1 = a1 THEN e + 1 ELSE e

\* rtcepoch++ (a0, a1: the alarm targets, which the increment does not read)
NextEpoch(e, a0, a1) == e + 1

AlarmDue_level(alarm, e) == alarm > 0 /\ e >= alarm

\* rtcalarmN > 0 && rtcepoch == rtcalarmN
AlarmDue(alarm, e) == alarm > 0 /\ e = alarm

Rearm_never(alarm, incr) == alarm

\* if (rtcalarmN_incr > 0) rtcalarmN += rtcalarmN_incr
Rearm(alarm, incr) == IF incr > 0 THEN alarm + incr ELSE alarm

\* The interrupt is taken when GIE, RTCIE and RTCIF are set; reading RTCIV
\* clears RTCIF; __bic_SR_register_on_exit(LPM4_bits) clears the low-power
\* bits of the status register the interrupted code resumes with.
RTC_ISR ==
    /\ "GIE" \in SR /\ RTCCTL.ie /\ RTCCTL.ifg
    /\ RTCCTL' = [RTCCTL EXCEPT !.ifg = FALSE]
    /\ rtcepoch' = NextEpoch(rtcepoch, rtcalarm0, rtcalarm1)
    /\ LET due0 == AlarmDue(rtcalarm0, rtcepoch')
           due1 == AlarmDue(rtcalarm1, rtcepoch')
           set  == (IF due0 THEN {RTCALARM_0_TRIGGERED} ELSE {})
                       \cup (IF due1 THEN {RTCALARM_1_TRIGGERED} ELSE {})
       IN  /\ rtc_status' = TickStatus(rtc_status) \cup set
           /\ rtcalarm0' = IF due0 THEN Rearm(rtcalarm0, rtcalarm0_incr) ELSE rtcalarm0
           /\ rtcalarm1' = IF due1 THEN Rearm(rtcalarm1, rtcalarm1_incr) ELSE rtcalarm1
           /\ fired' = set
           /\ isrbits' = IF fg_pc = "cleared" THEN isrbits \cup {RTC_TICK} \cup set
                         ELSE isrbits
           /\ shot' = [s \in {0, 1} |->
                         LET due  == IF s = 0 THEN due0 ELSE due1
                             incr == IF s = 0 THEN rtcalarm0_incr ELSE rtcalarm1_incr
                         IN  IF due /\ incr = 0 /\ shot[s] = 0 THEN 1 ELSE shot[s]]
    /\ SR' = SR \ {"LPM"}
    /\ nticks' = nticks + 1
    /\ UNCHANGED <<rtcalarm0_incr, rtcalarm1_incr, fg_pc, cmask, rd, pre, e0, c0T>>
    /\ UNCHANGED codecVars

(***************************************************************************)
(* Foreground code using the public variables.  Each access to the         *)
(* multi-word variables, and each clear of status bits, is made inside a   *)
(* critical section, as the design asks, and so is one step.               *)
(***************************************************************************)
MaxTarget == 2

\* the values the foreground writes to rtcepoch, and the re-arm increments it uses
EpochWrites == {0, 1}

Increments == {0, 1, 2}

\* rtcepoch = v
SetEpoch(v) ==
    /\ Awake /\ FgLeave
    /\ rtcepoch' = v
    /\ e0' = v
    /\ nticks' = 0
    /\ c0T' = 0
    /\ shot' = [s \in {0, 1} |-> IF shot[s] = 0 THEN 0 ELSE 2]
    /\ UNCHANGED <<rtcalarm0, rtcalarm0_incr, rtcalarm1, rtcalarm1_incr, rtc_status>>
    /\ UNCHANGED <<hwVars, fired, codecVars>>

\* rtcalarmN = t; rtcalarmN_incr = k
ConfigureAlarm(s, t, k) ==
    /\ Awake /\ FgLeave
    /\ IF s = 0
       THEN /\ rtcalarm0' = t
            /\ rtcalarm0_incr' = k
            /\ c0T' = IF t > rtcepoch /\ k > 0 THEN t ELSE 0
            /\ shot' = [shot EXCEPT ![0] = IF t # rtcalarm0 THEN 0 ELSE @]
            /\ UNCHANGED <<rtcalarm1, rtcalarm1_incr>>
       ELSE /\ rtcalarm1' = t
            /\ rtcalarm1_incr' = k
            /\ shot' = [shot EXCEPT ![1] = IF t # rtcalarm1 THEN 0 ELSE @]
            /\ UNCHANGED <<rtcalarm0, rtcalarm0_incr, c0T>>
    /\ UNCHANGED <<rtcepoch, rtc_status, hwVars, fired, e0, nticks, codecVars>>

\* rtc_status |= RTC_TICK_DOES_WAKEUP
SetWakeOption ==
    /\ Awake /\ FgLeave
    /\ rtc_status' = rtc_status \cup {RTC_TICK_DOES_WAKEUP}
    /\ UNCHANGED <<rtcepoch, rtcalarm0, rtcalarm0_incr, rtcalarm1, rtcalarm1_incr>>
    /\ UNCHANGED <<hwVars, histVars, codecVars>>

\* enter a low-power mode with interrupts enabled
Sleep ==
    /\ Awake /\ FgLeave
    /\ SR' = {"GIE", "LPM"}
    /\ UNCHANGED <<progVars, RTCCTL, histVars, codecVars>>

\* rtc_status &= ~mask
ClearStatus(mask) ==
    /\ Awake
    /\ rtc_status' = rtc_status \ mask
    /\ fg_pc' = "cleared"
    /\ cmask' = mask
    /\ pre' = rtc_status
    /\ isrbits' = {}
    /\ rd' = {}
    /\ UNCHANGED <<rtcepoch, rtcalarm0, rtcalarm0_incr, rtcalarm1, rtcalarm1_incr>>
    /\ UNCHANGED <<hwVars, histVars, codecVars>>

\* the read of rtc_status that immediately follows the clear
ReadStatus ==
    /\ Awake
    /\ fg_pc = "cleared"
    /\ rd' = rtc_status
    /\ fg_pc' = "read"
    /\ UNCHANGED <<progVars, hwVars, cmask, pre, isrbits, histVars, codecVars>>

(***************************************************************************)
(* The tick machine after reset, and three programs run on it.             *)
(***************************************************************************)
InitTick ==
    /\ rtcepoch = 0
    /\ rtcalarm0 = 0 /\ rtcalarm0_incr = 0
    /\ rtcalarm1 = 0 /\ rtcalarm1_incr = 0
    /\ rtc_status = {}
    /\ RTCCTL = [ss |-> "none", ie |-> FALSE, ifg |-> FALSE]
    /\ SR = {"GIE"}
    /\ fg_pc = "idle" /\ cmask = {} /\ rd = {} /\ pre = {} /\ isrbits = {}
    /\ fired = {} /\ e0 = 0 /\ nticks = 0 /\ c0T = 0
    /\ shot = [s \in {0, 1} |-> 0]

IdleCodec ==
    /\ epoch = 0 /\ ret = "unset" /\ result = 0 /\ cpc = "start"
    /\ timebuf = [tm_year |-> 0, tm_yday |-> 0, tm_mon |-> 0, tm_mday |-> 0,
                  tm_hour |-> 0, tm_min |-> 0, tm_sec |-> 0, tm_wday |-> 0]

Init == InitTick /\ IdleCodec

AlarmFlags == {RTC_TICK, RTCALARM_0_TRIGGERED, RTCALARM_1_TRIGGERED}

\* Alarm bookkeeping: the clock is started, the foreground sets the epoch,
\* configures both alarm slots and clears the flags; the hardware ticks.
NextAlarm ==
    \/ rtc_init("XT1CLK", TRUE)
    \/ HwTick
    \/ RTC_ISR
    \/ \E v \in EpochWrites : SetEpoch(v)
    \/ \E s \in {0, 1}, t \in 0..MaxTarget, k \in Increments : ConfigureAlarm(s, t, k)
    \/ ClearStatus(AlarmFlags)

SpecAlarm == Init /\ [][NextAlarm]_vars

ClearMasks ==
    { {RTCALARM_0_TRIGGERED},
      {RTCALARM_0_TRIGGERED, RTCALARM_1_TRIGGERED},
      {RTC_TICK, RTCALARM_0_TRIGGERED, RTCALARM_1_TRIGGERED},
      {RTC_TICK_DOES_WAKEUP},
      {RTC_GENERAL_ERROR, RTC_TICK} }

\* Status handling: the foreground clears some flags and reads the status
\* back while the clock ticks and the alarms fire.
NextStatus ==
    \/ \E src \in {"VLOCLK", "other"} : rtc_init(src, TRUE)
    \/ HwTick
    \/ RTC_ISR
    \/ \E s \in {0, 1}, t \in 1..MaxTarget : ConfigureAlarm(s, t, 1)
    \/ SetWakeOption
    \/ \E mask \in ClearMasks : ClearStatus(mask)
    \/ ReadStatus

SpecStatus == Init /\ [][NextStatus]_vars

\* Start-up and sleep: the foreground initialises the clock with any clock
\* source, sets one alarm, chooses the wake option and sleeps.
NextInit ==
    \/ \E src \in ClockSources, dco \in BOOLEAN : rtc_init(src, dco)
    \/ HwTick
    \/ RTC_ISR
    \/ \E t \in 0..MaxTarget : ConfigureAlarm(0, t, 0)
    \/ SetWakeOption
    \/ Sleep

SpecInit == Init /\ [][NextInit]_vars

(***************************************************************************)
(* A caller of the codec: t = rtc_interpret(epoch); result = rtc_epoch(t); *)
(***************************************************************************)
MaxCycles == 2

LastDay == 1096 + MaxCycles * 1461

SecondsOfDay == {0, 1, 3599, 3600, 43200, 86399}

\* 2000-02-29, 2000-03-01, 2000-12-31, 2036-02-29, 2036-12-31 and the last
\* second a signed 32-bit count holds
LateEpochs == {951782400, 951868800, 978220800, 2087856000, 2114294400, 2147483647}

TestEpochs == {d * 86400 + s : d \in 0..LastDay, s \in SecondsOfDay} \cup LateEpochs

ZeroTm == [tm_year |-> 0, tm_yday |-> 0, tm_mon |-> 0, tm_mday |-> 0,
           tm_hour |-> 0, tm_min |-> 0, tm_sec |-> 0, tm_wday |-> 0]

InitCodec ==
    /\ InitTick
    /\ epoch \in TestEpochs
    /\ timebuf = ZeroTm
    /\ ret = "unset"
    /\ result = 0
    /\ cpc = "start"

Interpret ==
    /\ cpc = "start"
    /\ LET r == rtc_interpret(epoch, timebuf)
       IN  /\ ret' = r.rv
           /\ timebuf' = r.buf
    /\ cpc' = "interpreted"
    /\ UNCHANGED <<epoch, result, tickVars>>

Epoch ==
    /\ cpc = "interpreted"
    /\ LET r == rtc_epoch(ret, timebuf)
       IN  /\ result' = r.rv
           /\ timebuf' = r.buf
    /\ cpc' = "done"
    /\ UNCHANGED <<epoch, ret, tickVars>>

NextCodec == Interpret \/ Epoch

SpecCodec == InitCodec /\ [][NextCodec]_vars

(***************************************************************************)
(* Reference calendar: days are counted from 1973-01-01, a year Y has 366  *)
(* days exactly when it is the 4th year of a cycle starting at 1973, and   *)
(* 1973-01-01 was a Monday.                                                *)
(***************************************************************************)
RefLeap(Y) == (Y - 1973) % 4 = 3

RefDaysBeforeYear(Y) == 365 * (Y - 1973) + ((Y - 1973) \div 4)

RefMonthDays(m, leap) ==
    IF m = 1 THEN (IF leap THEN 29 ELSE 28)
    ELSE IF m \in {3, 5, 8, 10} THEN 30 ELSE 31

RECURSIVE RefDaysBeforeMonth(_, _)
RefDaysBeforeMonth(m, leap) ==
    IF m = 0 THEN 0 ELSE RefDaysBeforeMonth(m - 1, leap) + RefMonthDays(m - 1, leap)

RefCalendar(e) ==
    LET D  == (e \div 86400) - 1096
        Y  == CHOOSE y \in (1973 + D \div 366) .. (1973 + D \div 365) :
                  RefDaysBeforeYear(y) <= D /\ D < RefDaysBeforeYear(y + 1)
        yd == D - RefDaysBeforeYear(Y)
        M  == CHOOSE m \in 0..11 :
                  /\ RefDaysBeforeMonth(m, RefLeap(Y)) <= yd
                  /\ yd < RefDaysBeforeMonth(m + 1, RefLeap(Y))
    IN  [year |-> Y, month |-> M, day |-> yd - RefDaysBeforeMonth(M, RefLeap(Y)) + 1,
         yday |-> yd]

RefWeekday(e) == (1 + ((e \div 86400) - 1096)) % 7

(***************************************************************************)
(* Properties of the codec                                                 *)
(***************************************************************************)

\* C1: for every epoch e >= 94694400 (1973-01-01T00:00:00Z) of the test set,
\* handing the struct returned by rtc_interpret(e) unchanged to rtc_epoch
\* returns exactly e.
C1_RoundTrip ==
    (cpc = "done" /\ epoch >= 94694400) => (ret = "timebuf" /\ result = epoch)

\* the last second of a leap year (1976-12-31T23:59:59Z) has made the round trip
C1_Witness ==
    cpc = "done" /\ epoch = 220924799 /\ result = 220924799 /\ timebuf.tm_yday = 365

\* C3: rtc_interpret returns NULL, and leaves the buffer unpopulated, for
\* every epoch below 94694400, and returns the populated buffer for every
\* epoch from 94694400 on.
C3_UnsupportedRange ==
    cpc # "start" =>
        /\ (epoch < 94694400) => (ret = "NULL" /\ timebuf = ZeroTm)
        /\ (epoch >= 94694400) => (ret = "timebuf" /\ timebuf.tm_year >= 1973
                                      /\ timebuf.tm_mday >= 1)

\* the last unsupported second has been refused
C3_Witness ==
    cpc = "interpreted" /\ epoch = 94694399 /\ ret = "NULL"

\* C4 as claimed: rtc_interpret produces a weekday for every epoch, 4 for
\* epoch 0 and 5 for epoch 86400.
C4_WeekdayAnchorClaimed ==
    cpc = "interpreted" =>
        /\ ret = "timebuf"
        /\ (epoch = 0) => timebuf.tm_wday = 4
        /\ (epoch = 86400) => timebuf.tm_wday = 5

\* C4 amended: epochs 0 and 86400 are refused (NULL), and for every supported
\* epoch tm_wday continues the week anchored at Thursday for day 0:
\* 1973-01-01 (94694400) is a Monday (1), the next day a Tuesday (2), and
\* each later day follows in turn.
C4_WeekdayAnchor ==
    cpc = "interpreted" =>
        /\ (epoch \in {0, 86400}) => ret = "NULL"
        /\ (ret = "timebuf") => timebuf.tm_wday = RefWeekday(epoch)
        /\ (epoch = 94694400) => (ret = "timebuf" /\ timebuf.tm_wday = 1)
        /\ (epoch = 94780800) => (ret = "timebuf" /\ timebuf.tm_wday = 2)

\* 1976-02-29 (a Sunday) has been interpreted
C4_Witness ==
    cpc = "interpreted" /\ epoch = 194400000 /\ ret = "timebuf" /\ timebuf.tm_wday = 0

\* C5: for every supported epoch of the test set the year, month, day and
\* yday written by rtc_interpret are those of the reference calendar; epoch
\* 194400000 is Feb 29 (month 1, day 29), epoch 226022400 is Mar 1 (month 2,
\* day 1), and no epoch of 1977 is a Feb 29.
C5_LeapYearCorrect ==
    (cpc = "interpreted" /\ ret = "timebuf") =>
        /\ timebuf.tm_year = RefCalendar(epoch).year
        /\ timebuf.tm_mon  = RefCalendar(epoch).month
        /\ timebuf.tm_mday = RefCalendar(epoch).day
        /\ timebuf.tm_yday = RefCalendar(epoch).yday
        /\ timebuf.tm_mon \in 0..11 /\ timebuf.tm_mday \in 1..31
        /\ (epoch = 194400000) =>
               (timebuf.tm_year = 1976 /\ timebuf.tm_mon = 1 /\ timebuf.tm_mday = 29)
        /\ (epoch = 226022400) =>
               (timebuf.tm_year = 1977 /\ timebuf.tm_mon = 2 /\ timebuf.tm_mday = 1)
        /\ (timebuf.tm_year = 1977) => ~(timebuf.tm_mon = 1 /\ timebuf.tm_mday = 29)

\* the last second of 1976-02-29 has been interpreted as Feb 29
C5_Witness ==
    /\ cpc = "interpreted" /\ epoch = 194486399 /\ ret = "timebuf"
    /\ timebuf.tm_mon = 1 /\ timebuf.tm_mday = 29 /\ timebuf.tm_yday = 59

(***************************************************************************)
(* Properties of the tick machine                                          *)
(***************************************************************************)

\* C2: alarm 0 was configured with a target T = c0T ahead of the epoch and a
\* re-arm increment k > 0, and only ticks have moved the epoch since.  Then a
\* tick sets RTCALARM_0_TRIGGERED exactly when the epoch becomes T + j*k
\* (j = 0, 1, ...), the target is then the next such value, and a tick in
\* between neither sets the flag nor moves the target.
C2_AlarmRearm ==
    [][(c0T # 0 /\ RTC_ISR) =>
          LET T   == c0T
              k   == rtcalarm0_incr
              hit == rtcepoch' >= T /\ (rtcepoch' - T) % k = 0
          IN  /\ k > 0
              /\ (RTCALARM_0_TRIGGERED \in fired') <=> hit
              /\ hit => (RTCALARM_0_TRIGGERED \in rtc_status' /\ rtcalarm0' = rtcepoch' + k)
              /\ ~hit => rtcalarm0' = rtcalarm0
              /\ rtcalarm0' = IF rtcepoch' < T THEN T
                              ELSE T + (((rtcepoch' - T) \div k) + 1) * k]_vars

\* alarm 0, set to 1 with increment 2 at epoch 0, has just fired a second
\* time, at epoch 3, and is re-armed for 5
C2_Witness ==
    /\ c0T = 1 /\ rtcalarm0_incr = 2 /\ e0 = 0 /\ nticks = 3 /\ rtcepoch = 3
    /\ RTCALARM_0_TRIGGERED \in fired /\ rtcalarm0 = 5

\* C6: every run of the tick handler adds exactly 1 to the epoch, whether or
\* not an alarm fires, and n ticks after the epoch was e0, with no foreground
\* write of it in between, the epoch is e0 + n.
C6_Monotonic ==
    [][/\ RTC_ISR => (rtcepoch' = rtcepoch + 1 /\ nticks' = nticks + 1 /\ e0' = e0)
       /\ rtcepoch' = e0' + nticks']_vars

\* three ticks after the foreground wrote 1, one of them firing alarm 0
C6_Witness ==
    /\ e0 = 1 /\ nticks = 3 /\ rtcepoch = 4
    /\ rtcalarm0 = 2 /\ rtcalarm0_incr = 0 /\ RTCALARM_0_TRIGGERED \in rtc_status

\* C7: the status read right after clearing mask holds exactly the bits
\* outside mask that were set before the clear, together with every bit the
\* tick handler has set in between; so no bit set by an interleaved tick is
\* lost, and every bit of mask reads 0 when the ticks in between set only
\* bits outside mask.
C7_ClearThenRead ==
    fg_pc = "read" =>
        /\ rd = (pre \ cmask) \cup isrbits
        /\ (isrbits \cap cmask = {}) => (rd \cap cmask = {})

\* alarm 0's flag was cleared while alarm 1's flag and the wake option were
\* set, a tick came in between, and the read shows all but alarm 0's flag
C7_Witness ==
    /\ fg_pc = "read" /\ cmask = {RTCALARM_0_TRIGGERED}
    /\ pre = {RTCALARM_0_TRIGGERED, RTCALARM_1_TRIGGERED, RTC_TICK_DOES_WAKEUP}
    /\ isrbits = {RTC_TICK}
    /\ rd = {RTC_TICK, RTCALARM_1_TRIGGERED, RTC_TICK_DOES_WAKEUP}

\* the clock sources rtc_init is documented to refuse: anything but XT1CLK,
\* VLOCLK and SMCLK, and SMCLK when it is not derived from the DCO
BadClockSource(src, dco) ==
    src \notin {"XT1CLK", "VLOCLK", "SMCLK"} \/ (src = "SMCLK" /\ ~dco)

TickSourceArmed == RTCCTL.ss # "none" \/ RTCCTL.ie

\* C8 as claimed: a call of rtc_init with an unsupported or misconfigured
\* clock source sets RTC_GENERAL_ERROR and leaves the tick source not armed,
\* whatever happened before.
C8_InitFailureClaimed ==
    [][\A src \in ClockSources, dco \in BOOLEAN :
          (BadClockSource(src, dco) /\ rtc_init(src, dco)) =>
              (RTC_GENERAL_ERROR \in rtc_status' /\ ~TickSourceArmed')]_vars

\* C8 amended: such a call sets RTC_GENERAL_ERROR and leaves the tick source
\* as it found it; a tick source that was never armed stays unarmed, the
\* handler does not run and the epoch does not advance, while a tick source
\* armed by an earlier successful rtc_init stays armed.
C8_InitFailure ==
    [][/\ \A src \in ClockSources, dco \in BOOLEAN :
            (BadClockSource(src, dco) /\ rtc_init(src, dco)) =>
                /\ rtc_status' = {RTC_GENERAL_ERROR}
                /\ RTCCTL'.ss = RTCCTL.ss /\ RTCCTL'.ie = RTCCTL.ie
                /\ ~RTCCTL'.ifg
                /\ rtcepoch' = rtcepoch
       /\ ~TickSourceArmed =>
            (~HwTick /\ ~RTC_ISR /\ (rtcepoch' # rtcepoch => TickSourceArmed'))]_vars

\* rtc_init has failed on a tick source that was never armed
C8_Witness ==
    /\ RTC_GENERAL_ERROR \in rtc_status /\ ~TickSourceArmed
    /\ rtcepoch = 0 /\ nticks = 0

\* C9: with RTC_TICK_DOES_WAKEUP cleared, a tick that triggers no alarm
\* leaves the sleeping CPU asleep and a tick that triggers an alarm wakes
\* it; with the option set every tick wakes it.
C9_WakePolicy ==
    [][(RTC_ISR /\ "LPM" \in SR) =>
          ("LPM" \notin SR' <=>
              (RTC_TICK_DOES_WAKEUP \in rtc_status \/ fired' # {}))]_vars

AlarmTarget(s) == IF s = 0 THEN rtcalarm0 ELSE rtcalarm1

AlarmIncr(s) == IF s = 0 THEN rtcalarm0_incr ELSE rtcalarm1_incr

AlarmFlag(s) == IF s = 0 THEN RTCALARM_0_TRIGGERED ELSE RTCALARM_1_TRIGGERED

\* What both readings of C10 share: the tick at which the epoch becomes the
\* non-zero target of a slot with increment 0 sets the slot's flag and
\* leaves the target.
FiresAtTarget(s) ==
    (AlarmTarget(s) # 0 /\ AlarmIncr(s) = 0 /\ rtcepoch' = AlarmTarget(s)) =>
        /\ AlarmFlag(s) \in fired' /\ AlarmFlag(s) \in rtc_status'
        /\ AlarmTarget(s)' = AlarmTarget(s)

\* C10 as claimed: ... and no later tick sets the slot's flag again until
\* the foreground changes the target.
C10_FiresOnceClaimed ==
    [][RTC_ISR => \A s \in {0, 1} :
          /\ FiresAtTarget(s)
          /\ shot[s] \in {1, 2} =>
                /\ AlarmFlag(s) \notin fired'
                /\ AlarmFlag(s) \notin rtc_status => AlarmFlag(s) \notin rtc_status']_vars

\* C10 amended: ... and no later tick sets the slot's flag again until the
\* foreground changes the target or writes the epoch; once cleared, the
\* flag stays clear until then.
C10_FiresOnce ==
    [][RTC_ISR => \A s \in {0, 1} :
          /\ FiresAtTarget(s)
          /\ shot[s] = 1 =>
                /\ AlarmFlag(s) \notin fired'
                /\ AlarmFlag(s) \notin rtc_status => AlarmFlag(s) \notin rtc_status']_vars

\* alarm 1 fired at epoch 2 with increment 0, its flag was cleared, and two
\* ticks later the flag is still clear and the target still 2
C10_Witness ==
    /\ shot[1] = 1 /\ rtcalarm1 = 2 /\ rtcalarm1_incr = 0 /\ rtcepoch = 4
    /\ RTCALARM_1_TRIGGERED \notin rtc_status /\ RTC_TICK \in rtc_status

====
